---- MODULE Spec2Model ----
(***************************************************************************)
(* Model of backend/app/config.py: the Settings class (a pydantic v1       *)
(* BaseSettings subclass with five fields and env_file = ".env") and the   *)
(* module-level construction  settings = Settings().                       *)
(*                                                                         *)
(* Text is a sequence of one-character strings; the character U+2013 (en   *)
(* dash) of the PROJECT_NAME default is written "U+2013".  A Python value  *)
(* is a record tagged with its type.                                       *)
(*                                                                         *)
(* pydantic folds the case of names before matching them; here every name *)
(* is written in the field's own spelling.  The file is taken as text: a   *)
(* file that cannot be opened or decoded is not among the inputs.          *)
(***************************************************************************)
EXTENDS Integers, Sequences, FiniteSets, TLC

VARIABLES environ, envfile, pc, settings, other, nassign

vars == <<environ, envfile, pc, settings, other, nassign>>

(***************************************************************************)
(* Bounds of the model.                                                    *)
(***************************************************************************)
MaxEnvVars == 1

MaxLines == 1

MaxAssign == 1

(***************************************************************************)
(* Python values.                                                          *)
(***************************************************************************)
PyStr(s) == [type |-> "str", s |-> s, n |-> 0]

PyInt(n) == [type |-> "int", s |-> <<>>, n |-> n]

PyNone == [type |-> "NoneType", s |-> <<>>, n |-> 0]

EmptyDict == [k \in {} |-> PyNone]

\* {**a, **b}: the keys of both, b's value where both have the key.
DictUpdate(a, b) ==
    [k \in (DOMAIN a) \cup (DOMAIN b) |-> IF k \in DOMAIN b THEN b[k] ELSE a[k]]

(***************************************************************************)
(* class Settings: the fields and their defaults.                          *)
(***************************************************************************)
StrFields == {"PROJECT_NAME", "DATABASE_URL", "JWT_SECRET_KEY", "JWT_ALGORITHM"}

IntFields == {"ACCESS_TOKEN_EXPIRE_MINUTES"}

Fields == StrFields \cup IntFields

PROJECT_NAME ==
    <<"P","h","y","R","I","S","K"," ","U+2013"," ","A","I","-","D","r","i",
      "v","e","n"," ","M","e","n","t","a","l"," ","H","e","a","l","t","h",
      " ","R","i","s","k"," ","I","n","t","e","l","l","i","g","e","n","c",
      "e">>

DATABASE_URL ==
    <<"s","q","l","i","t","e",":","/","/","/",".","/","d","e","v",".","d",
      "b">>

JWT_SECRET_KEY == <<"C","H","A","N","G","E","_","M","E">>

JWT_ALGORITHM == <<"H","S","2","5","6">>

ACCESS_TOKEN_EXPIRE_MINUTES == 60

\* Default with the expiry default mistyped as 30.
Default_Expiry30(f) ==
    CASE f = "PROJECT_NAME" -> PyStr(PROJECT_NAME)
      [] f = "DATABASE_URL" -> PyStr(DATABASE_URL)
      [] f = "JWT_SECRET_KEY" -> PyStr(JWT_SECRET_KEY)
      [] f = "JWT_ALGORITHM" -> PyStr(JWT_ALGORITHM)
      [] f = "ACCESS_TOKEN_EXPIRE_MINUTES" -> PyInt(30)

Default(f) ==
    CASE f = "PROJECT_NAME" -> PyStr(PROJECT_NAME)
      [] f = "DATABASE_URL" -> PyStr(DATABASE_URL)
      [] f = "JWT_SECRET_KEY" -> PyStr(JWT_SECRET_KEY)
      [] f = "JWT_ALGORITHM" -> PyStr(JWT_ALGORITHM)
      [] f = "ACCESS_TOKEN_EXPIRE_MINUTES" -> PyInt(ACCESS_TOKEN_EXPIRE_MINUTES)

(***************************************************************************)
(* Field validation: the annotations  str  and  int.                       *)
(* int(text) strips white space, takes an optional sign and then decimal   *)
(* digits, single underscores allowed between digits.                      *)
(***************************************************************************)
Whitespace == {" ", "\t", "\n", "\r"}

DigitChars == {"0", "1", "2", "3", "4", "5", "6", "7", "8", "9"}

DigitValue(c) ==
    CASE c = "0" -> 0 [] c = "1" -> 1 [] c = "2" -> 2 [] c = "3" -> 3
      [] c = "4" -> 4 [] c = "5" -> 5 [] c = "6" -> 6 [] c = "7" -> 7
      [] c = "8" -> 8 [] c = "9" -> 9

DigitChar(d) ==
    CASE d = 0 -> "0" [] d = 1 -> "1" [] d = 2 -> "2" [] d = 3 -> "3"
      [] d = 4 -> "4" [] d = 5 -> "5" [] d = 6 -> "6" [] d = 7 -> "7"
      [] d = 8 -> "8" [] d = 9 -> "9"

RECURSIVE LStrip(_)
LStrip(s) ==
    IF s # <<>> /\ Head(s) \in Whitespace THEN LStrip(Tail(s)) ELSE s

RECURSIVE RStrip(_)
RStrip(s) ==
    IF s # <<>> /\ s[Len(s)] \in Whitespace
    THEN RStrip(SubSeq(s, 1, Len(s) - 1))
    ELSE s

Strip(s) == RStrip(LStrip(s))

\* Digits, with single underscores between digits only.
IsDecimal(s) ==
    /\ Len(s) >= 1
    /\ s[1] \in DigitChars
    /\ s[Len(s)] \in DigitChars
    /\ \A i \in 1..Len(s) : s[i] \in DigitChars \cup {"_"}
    /\ \A i \in 1..(Len(s) - 1) : ~(s[i] = "_" /\ s[i + 1] = "_")

RECURSIVE DecimalValue(_, _)
DecimalValue(s, acc) ==
    IF s = <<>> THEN acc
    ELSE IF Head(s) = "_" THEN DecimalValue(Tail(s), acc)
    ELSE DecimalValue(Tail(s), acc * 10 + DigitValue(Head(s)))

\* int(s) for a str s: [ok |-> FALSE] stands for ValueError.
IntOfStr(s) ==
    LET t == Strip(s)
        signed == t # <<>> /\ Head(t) \in {"+", "-"}
        body == IF signed THEN Tail(t) ELSE t
        magnitude == DecimalValue(body, 0)
    IN  IF IsDecimal(body)
        THEN [ok |-> TRUE,
              n |-> IF signed /\ Head(t) = "-" THEN 0 - magnitude ELSE magnitude]
        ELSE [ok |-> FALSE, n |-> 0]

RECURSIVE NatToText(_)
NatToText(n) ==
    IF n < 10 THEN <<DigitChar(n)>>
    ELSE Append(NatToText(n \div 10), DigitChar(n % 10))

\* str(n) for an int n.
StrOfInt(n) == IF n < 0 THEN <<"-">> \o NatToText(0 - n) ELSE NatToText(n)

\* A field annotated str: a str is kept, an int is formatted, None is refused.
StrValidator(v) ==
    CASE v.type = "str" -> [ok |-> TRUE, value |-> v]
      [] v.type = "int" -> [ok |-> TRUE, value |-> PyStr(StrOfInt(v.n))]
      [] OTHER -> [ok |-> FALSE, value |-> PyNone]

\* IntValidator swallowing the ValueError and storing 0.
IntValidator_ZeroOnError(v) ==
    CASE v.type = "int" -> [ok |-> TRUE, value |-> v]
      [] v.type = "str" ->
            LET r == IntOfStr(v.s)
            IN  [ok |-> TRUE, value |-> PyInt(IF r.ok THEN r.n ELSE 0)]
      [] OTHER -> [ok |-> FALSE, value |-> PyNone]

\* A field annotated int: an int is kept, a str goes through int().
IntValidator(v) ==
    CASE v.type = "int" -> [ok |-> TRUE, value |-> v]
      [] v.type = "str" ->
            LET r == IntOfStr(v.s)
            IN  IF r.ok THEN [ok |-> TRUE, value |-> PyInt(r.n)]
                ELSE [ok |-> FALSE, value |-> PyNone]
      [] OTHER -> [ok |-> FALSE, value |-> PyNone]

Validate(f, v) == IF f \in IntFields THEN IntValidator(v) ELSE StrValidator(v)

(***************************************************************************)
(* class Config: env_file = ".env".  The file, when it exists, is a        *)
(* sequence of lines: a binding KEY=value, a key with no "=" (read as      *)
(* None), or a line that does not parse (skipped).  A later binding of a   *)
(* key replaces an earlier one.                                            *)
(***************************************************************************)
Binding(k, s) == [kind |-> "binding", key |-> k, value |-> s]

KeyOnly(k) == [kind |-> "keyonly", key |-> k, value |-> <<>>]

Junk == [kind |-> "junk", key |-> "", value |-> <<>>]

\* DotenvValues reading a key with no "=" as the empty string.
RECURSIVE DotenvValues_KeyOnlyEmpty(_, _)
DotenvValues_KeyOnlyEmpty(lines, acc) ==
    IF lines = <<>> THEN acc
    ELSE LET l == Head(lines)
             one == CASE l.kind = "binding" -> (l.key :> PyStr(l.value))
                      [] l.kind = "keyonly" -> (l.key :> PyStr(<<>>))
                      [] OTHER -> EmptyDict
         IN  DotenvValues_KeyOnlyEmpty(Tail(lines), DictUpdate(acc, one))

RECURSIVE DotenvValues(_, _)
DotenvValues(lines, acc) ==
    IF lines = <<>> THEN acc
    ELSE LET l == Head(lines)
             one == CASE l.kind = "binding" -> (l.key :> PyStr(l.value))
                      [] l.kind = "keyonly" -> (l.key :> PyNone)
                      [] OTHER -> EmptyDict
         IN  DotenvValues(Tail(lines), DictUpdate(acc, one))

\* The file is read only if it is a file; a missing file gives no values.
ReadEnvFile(file) ==
    IF file.exists THEN DotenvValues(file.lines, EmptyDict) ELSE EmptyDict

\* EnvSettingsSource with the file's values replacing the environment's.
EnvSettingsSource_FileWins(env, file) ==
    LET env_vars == DictUpdate(env, ReadEnvFile(file))
        found == {f \in Fields : f \in DOMAIN env_vars /\ env_vars[f] # PyNone}
    IN  [f \in found |-> env_vars[f]]

\* EnvSettingsSource reading the file alone.
EnvSettingsSource_FileOnly(env, file) ==
    LET env_vars == ReadEnvFile(file)
        found == {f \in Fields : f \in DOMAIN env_vars /\ env_vars[f] # PyNone}
    IN  [f \in found |-> env_vars[f]]

\* The environment source: the file's values, replaced by the process
\* environment's; a field gets a value when one is found that is not None.
EnvSettingsSource(env, file) ==
    LET env_vars == DictUpdate(ReadEnvFile(file), env)
        found == {f \in Fields : f \in DOMAIN env_vars /\ env_vars[f] # PyNone}
    IN  [f \in found |-> env_vars[f]]

\* BuildValues with the environment source replacing the constructor's values.
BuildValues_EnvOverKwargs(kwargs, env, file) ==
    DictUpdate(kwargs, EnvSettingsSource(env, file))

\* Values given to the constructor replace those of the environment source.
BuildValues(kwargs, env, file) ==
    DictUpdate(EnvSettingsSource(env, file), kwargs)

Unbound == [f \in Fields |-> PyNone]

\* Settings(**kwargs): every field is validated, its default included;
\* [ok |-> FALSE] stands for ValidationError, errors the fields refused.
SettingsInit(kwargs, env, file) ==
    LET values == BuildValues(kwargs, env, file)
        input(f) == IF f \in DOMAIN values THEN values[f] ELSE Default(f)
        errors == {f \in Fields : ~Validate(f, input(f)).ok}
    IN  IF errors = {}
        THEN [ok |-> TRUE, rec |-> [f \in Fields |-> Validate(f, input(f)).value],
              errors |-> {}]
        ELSE [ok |-> FALSE, rec |-> Unbound, errors |-> errors]

(***************************************************************************)
(* Inputs: the process environment, the file and constructor arguments.    *)
(***************************************************************************)
T45 == <<"4", "5">>

T30 == <<"3", "0">>

T0 == <<"0">>

TNeg5 == <<"-", "5">>

TNotANumber == <<"n","o","t","a","n","u","m","b","e","r">>

EnvTexts(f) == IF f \in IntFields THEN {T45, TNeg5, TNotANumber} ELSE {TNotANumber}

Environs ==
    UNION {
        {e \in [S -> {PyStr(T45), PyStr(TNeg5), PyStr(TNotANumber)}] :
            \A f \in S : e[f].s \in EnvTexts(f)} :
        S \in {S \in SUBSET Fields : Cardinality(S) <= MaxEnvVars}}

FileLines ==
    {Binding(f, T30) : f \in Fields}
    \cup {Binding("ACCESS_TOKEN_EXPIRE_MINUTES", T0),
          Binding("ACCESS_TOKEN_EXPIRE_MINUTES", TNotANumber),
          KeyOnly("ACCESS_TOKEN_EXPIRE_MINUTES"),
          Binding("DEBUG", T30),
          Junk}

RECURSIVE SeqsUpTo(_, _)
SeqsUpTo(S, n) ==
    IF n = 0 THEN {<<>>}
    ELSE LET shorter == SeqsUpTo(S, n - 1)
         IN  shorter \cup {Append(q, x) : q \in shorter, x \in S}

EnvFiles ==
    {[exists |-> FALSE, lines |-> <<>>]}
    \cup {[exists |-> TRUE, lines |-> q] : q \in SeqsUpTo(FileLines, MaxLines)}

KwargSamples ==
    {EmptyDict,
     ("ACCESS_TOKEN_EXPIRE_MINUTES" :> PyInt(15)),
     ("ACCESS_TOKEN_EXPIRE_MINUTES" :> PyStr(TNotANumber)),
     ("JWT_ALGORITHM" :> PyStr(T0)),
     ("PROJECT_NAME" :> PyInt(0 - 5)),
     ("DATABASE_URL" :> PyStr(T45) @@ "JWT_SECRET_KEY" :> PyStr(T30))}

AssignSamples == {PyStr(T0)}

(***************************************************************************)
(* The process.                                                            *)
(***************************************************************************)
NoCall == [called |-> FALSE, kwargs |-> EmptyDict, ok |-> FALSE, rec |-> Unbound]

Init ==
    /\ environ \in Environs
    /\ envfile \in EnvFiles
    /\ pc = "Unconstructed"
    /\ settings = Unbound
    /\ other = NoCall
    /\ nassign = 0

\* Line 15, run when the module is imported: settings = Settings().
\* A ValidationError leaves the name unbound and ends the import.
Load ==
    /\ pc = "Unconstructed"
    /\ LET r == SettingsInit(EmptyDict, environ, envfile)
       IN  IF r.ok
           THEN pc' = "Ready" /\ settings' = r.rec
           ELSE pc' = "Failed" /\ settings' = settings
    /\ UNCHANGED <<environ, envfile, other, nassign>>

\* Construct rebinding the module's settings to the new record.
Construct_Rebinds(kwargs) ==
    /\ pc = "Ready"
    /\ LET r == SettingsInit(kwargs, environ, envfile)
       IN  /\ other' = [called |-> TRUE, kwargs |-> kwargs, ok |-> r.ok, rec |-> r.rec]
           /\ settings' = IF r.ok THEN r.rec ELSE settings
    /\ UNCHANGED <<environ, envfile, pc, nassign>>

\* A later call Settings(**kwargs) by an importer of the module.
Construct(kwargs) ==
    /\ pc = "Ready"
    /\ LET r == SettingsInit(kwargs, environ, envfile)
       IN  other' = [called |-> TRUE, kwargs |-> kwargs, ok |-> r.ok, rec |-> r.rec]
    /\ UNCHANGED <<environ, envfile, pc, settings, nassign>>

\* settings.<f> = v: the class sets neither allow_mutation = False nor
\* validate_assignment, so the value is stored as given.
SetAttr(f, v) ==
    /\ pc = "Ready"
    /\ nassign < MaxAssign
    /\ settings' = [settings EXCEPT ![f] = v]
    /\ nassign' = nassign + 1
    /\ UNCHANGED <<environ, envfile, pc, other>>

Next ==
    \/ Load
    \/ \E kwargs \in KwargSamples : Construct(kwargs)
    \/ \E f \in Fields, v \in AssignSamples : SetAttr(f, v)

Spec == Init /\ [][Next]_vars

(***************************************************************************)
(* What the properties speak of.                                           *)
(***************************************************************************)
Expiry == "ACCESS_TOKEN_EXPIRE_MINUTES"

\* The constructions whose result is on view in a state: the import-time
\* one (settings as constructed, before any assignment to it; or the failed
\* import) and the latest later call.
Constructions ==
    (IF pc = "Ready" /\ nassign = 0
     THEN {[kwargs |-> EmptyDict, ok |-> TRUE, rec |-> settings]} ELSE {})
    \cup (IF pc = "Failed"
          THEN {[kwargs |-> EmptyDict, ok |-> FALSE, rec |-> settings]} ELSE {})
    \cup (IF other.called
          THEN {[kwargs |-> other.kwargs, ok |-> other.ok, rec |-> other.rec]}
          ELSE {})

EnvSupplies(f) == f \in DOMAIN environ

\* The lines of the file that name f, and the last of them.
LinesOf(f) ==
    {i \in 1..Len(envfile.lines) :
        envfile.lines[i].kind # "junk" /\ envfile.lines[i].key = f}

LastLineOf(f) ==
    envfile.lines[CHOOSE i \in LinesOf(f) : \A j \in LinesOf(f) : j <= i]

FileSupplies(f) ==
    envfile.exists /\ LinesOf(f) # {} /\ LastLineOf(f).kind = "binding"

FileValue(f) == PyStr(LastLineOf(f).value)

\* The file gives no field a value: it is missing, or none of its lines
\* parses as KEY=value.
NoFileValues ==
    ~envfile.exists
    \/ \A i \in 1..Len(envfile.lines) : envfile.lines[i].kind \in {"junk", "keyonly"}

Parses(v) == v.type = "int" \/ (v.type = "str" /\ IntOfStr(v.s).ok)

\* The field's value as the record holds it, from the raw value v.
Held(f, v) ==
    IF f \in IntFields
    THEN (IF v.type = "int" THEN v ELSE PyInt(IntOfStr(v.s).n))
    ELSE (IF v.type = "str" THEN v ELSE PyStr(StrOfInt(v.n)))

Defaults ==
    [f \in Fields |->
        CASE f = "PROJECT_NAME" -> PyStr(PROJECT_NAME)
          [] f = "DATABASE_URL" -> PyStr(DATABASE_URL)
          [] f = "JWT_SECRET_KEY" -> PyStr(JWT_SECRET_KEY)
          [] f = "JWT_ALGORITHM" -> PyStr(JWT_ALGORITHM)
          [] f = "ACCESS_TOKEN_EXPIRE_MINUTES" -> PyInt(60)]

\* Explicit value, then process environment, then file, then default.
Resolved(kwargs, f) ==
    IF f \in DOMAIN kwargs THEN kwargs[f]
    ELSE IF EnvSupplies(f) THEN environ[f]
    ELSE IF FileSupplies(f) THEN FileValue(f)
    ELSE Defaults[f]

\* Explicit value, then file, then process environment, then default.
ResolvedFileFirst(kwargs, f) ==
    IF f \in DOMAIN kwargs THEN kwargs[f]
    ELSE IF FileSupplies(f) THEN FileValue(f)
    ELSE IF EnvSupplies(f) THEN environ[f]
    ELSE Defaults[f]

(***************************************************************************)
(* The properties.                                                         *)
(***************************************************************************)

\* C1: when the environment file and the process environment both supply a
\* field (and the constructor was given no value for it), the constructed
\* record holds the process environment's value, for every field.
C1_EnvOverridesFile ==
    \A c \in Constructions : \A f \in Fields :
        (c.ok /\ f \notin DOMAIN c.kwargs /\ EnvSupplies(f) /\ FileSupplies(f))
            => c.rec[f] = Held(f, environ[f])

\* The file says ACCESS_TOKEN_EXPIRE_MINUTES=30, the environment 45, and the
\* record constructed at import holds 45.
C1_Witness ==
    /\ pc = "Ready" /\ nassign = 0
    /\ FileSupplies(Expiry) /\ FileValue(Expiry) = PyStr(T30)
    /\ EnvSupplies(Expiry) /\ environ[Expiry] = PyStr(T45)
    /\ settings[Expiry] = PyInt(45)

\* C2 as stated: each field of a constructed record has the value of the
\* first source that supplies it, in the order explicit value, environment
\* file, process environment variable, default.
C2_FileBeforeEnv ==
    \A c \in Constructions : \A f \in Fields :
        c.ok => c.rec[f] = Held(f, ResolvedFileFirst(c.kwargs, f))

\* C2 amended: each field of a constructed record has the value of the first
\* source that supplies it, in the order explicit value, process environment
\* variable, environment file, default.
C2_EnvBeforeFile ==
    \A c \in Constructions : \A f \in Fields :
        c.ok => c.rec[f] = Held(f, Resolved(c.kwargs, f))

\* A call gave ACCESS_TOKEN_EXPIRE_MINUTES explicitly while the environment
\* and the file both supply it, and the record holds the explicit value.
C2_Witness ==
    /\ other.called /\ other.ok
    /\ Expiry \in DOMAIN other.kwargs
    /\ EnvSupplies(Expiry) /\ FileSupplies(Expiry)
    /\ other.rec[Expiry] = other.kwargs[Expiry]
    /\ other.rec[Expiry] # Held(Expiry, environ[Expiry])
    /\ Held(Expiry, environ[Expiry]) # Held(Expiry, FileValue(Expiry))

\* C3: with no environment file and no environment variable for any field,
\* construction does not fail and the record is exactly the defaults.
C3_DefaultsOnly ==
    (~envfile.exists /\ DOMAIN environ = {}) =>
        /\ pc # "Failed"
        /\ \A c \in Constructions :
               c.kwargs = EmptyDict => (c.ok /\ c.rec = Defaults)

\* No file, no environment variable, and the import has bound the defaults.
C3_Witness ==
    /\ pc = "Ready" /\ nassign = 0
    /\ ~envfile.exists /\ DOMAIN environ = {}
    /\ settings[Expiry] = PyInt(60)
    /\ settings["JWT_SECRET_KEY"] = PyStr(JWT_SECRET_KEY)

\* C4: a construction fails exactly when the resolved raw value of
\* ACCESS_TOKEN_EXPIRE_MINUTES does not parse as an integer (so no value of
\* a string field makes it fail); a failed construction produces no record,
\* and a failed import never reaches Ready.
C4_IntegerValidation ==
    /\ \A c \in Constructions :
           /\ c.ok <=> Parses(Resolved(c.kwargs, Expiry))
           /\ ~c.ok => c.rec = Unbound
    /\ ~Parses(Resolved(EmptyDict, Expiry)) => (pc # "Ready" /\ settings = Unbound)

\* The environment says ACCESS_TOKEN_EXPIRE_MINUTES=notanumber and the
\* import has failed, leaving no record.
C4_Witness ==
    /\ pc = "Failed"
    /\ EnvSupplies(Expiry) /\ environ[Expiry] = PyStr(TNotANumber)
    /\ settings = Unbound

\* C5 as stated: once constructed, the record never changes: no step changes
\* the value of any field of settings.
C5_Immutable == [][pc = "Ready" => settings' = settings]_vars

\* C6: when one environment variable is set, the file gives no field a value
\* and the constructor is given none, the record holds the variable's value
\* for that field and the default for every other field.
C6_SingleOverride ==
    \A c \in Constructions :
        (c.ok /\ c.kwargs = EmptyDict /\ NoFileValues
              /\ Cardinality(DOMAIN environ) = 1)
            => \A f \in Fields :
                   c.rec[f] = IF EnvSupplies(f) THEN Held(f, environ[f])
                              ELSE Defaults[f]

\* Only JWT_ALGORITHM is set in the environment, there is no file, and the
\* record holds the override and the other defaults.
C6_Witness ==
    /\ pc = "Ready" /\ nassign = 0
    /\ ~envfile.exists
    /\ DOMAIN environ = {"JWT_ALGORITHM"}
    /\ settings["JWT_ALGORITHM"] = environ["JWT_ALGORITHM"]
    /\ settings["JWT_ALGORITHM"] # Defaults["JWT_ALGORITHM"]
    /\ \A f \in Fields \ {"JWT_ALGORITHM"} : settings[f] = Defaults[f]

C8_NoSecondRecord == ~(other.called /\ other.ok)

\* C8 amended: settings is constructed only by the import, from
\* Unconstructed; Ready is terminal (and so is a failed import); a later call
\* of Settings() produces a record of its own and leaves settings as it was.
C8_BoundOnce ==
    [][/\ pc = "Ready" => pc' = "Ready"
       /\ pc = "Failed" => pc' = "Failed"
       /\ other' # other => settings' = settings]_vars

\* After the import a later call has produced a second record, different
\* from settings, and settings is still as the import constructed it.
C8_Witness ==
    /\ pc = "Ready" /\ nassign = 0
    /\ other.called /\ other.ok
    /\ other.rec # settings
    /\ \A f \in Fields : settings[f] = Held(f, Resolved(EmptyDict, f))

\* C9 as stated: every constructed record has
\* ACCESS_TOKEN_EXPIRE_MINUTES > 0.
C9_PositiveExpiry ==
    \A c \in Constructions : c.ok => c.rec[Expiry].n > 0

TypeOK ==
    /\ pc \in {"Unconstructed", "Ready", "Failed"}
    /\ nassign \in 0..MaxAssign
    /\ DOMAIN settings = Fields
====
